---- MODULE Spec2Model ----
(***************************************************************************)
(* Meeting-room session manager (backend/app/signaling.py), the agent's    *)
(* conversation state machine and the scheduled auto-join                  *)
(* (backend/app/services/ai_meeting_orchestrator.py), as state machines.   *)
(*                                                                         *)
(* The server runs on one asyncio event loop: code between two real        *)
(* suspension points runs without interleaving.  A Python dict is modelled *)
(* as a function whose DOMAIN is the set of keys (meeting_rooms,           *)
(* participant_to_room, ai_auto_join_tasks, active_conversations) or, where *)
(* the insertion order is read (room.participants), as a sequence of       *)
(* entries.                                                                *)
(***************************************************************************)
EXTENDS Integers, Sequences, FiniteSets, TLC

(***************************************************************************)
(* Values and bounds                                                       *)
(***************************************************************************)
None == "None"

HUMAN == "human"
AI == "ai"

Rooms == {"r1", "r2"}
Humans == {"u1", "u2"}
AiUser == "ai-assistant"
UserIds == Humans \cup {AiUser}

\* websocket connections a run opens; each is accepted once
NumConns == 2
Conns == 1..NumConns
\* the AIWebSocketMock of the agent: its send_text never raises
MockWs == 0

DefaultMaxParticipants == 10
\* largest capacity a room is explicitly created with
MaxCap == 2

(***************************************************************************)
(* dict helpers                                                            *)
(***************************************************************************)
Put(f, k, v) == [x \in (DOMAIN f) \cup {k} |-> IF x = k THEN v ELSE f[x]]

Del(f, k) == [x \in (DOMAIN f) \ {k} |-> f[x]]

EmptyDict == << >>

SeqRemoveAt(s, i) == [j \in 1..(Len(s) - 1) |-> IF j < i THEN s[j] ELSE s[j + 1]]

(***************************************************************************)
(* Participant, MeetingRoom                                                *)
(***************************************************************************)
Participant(user_id, websocket, participant_type) ==
    [user_id |-> user_id, websocket |-> websocket,
     participant_type |-> participant_type, voice_activity |-> FALSE]

\* room.ai_participant = None
NoParticipant == [user_id |-> None, websocket |-> -1]

ParticipantRef(p) == [user_id |-> p.user_id, websocket |-> p.websocket]

MeetingRoom(max_participants) ==
    [max_participants |-> max_participants,
     participants |-> << >>,
     ai_participant |-> NoParticipant,
     conversation_state |-> "waiting",
     current_speaker |-> None,
     \* datetime.now() - created_at > timedelta(minutes=5)
     older_than_grace |-> FALSE]

ParticipantIds(room) ==
    {room.participants[i].user_id : i \in 1..Len(room.participants)}

IndexOfUser(room, user_id) ==
    CHOOSE i \in 1..Len(room.participants) : room.participants[i].user_id = user_id

\* add_participant with the capacity test off by one
add_participant_OffByOne(room, participant) ==
    IF Len(room.participants) > room.max_participants
    THEN [ok |-> FALSE, room |-> room]
    ELSE [ok |-> TRUE,
          room |-> [room EXCEPT !.participants =
                      IF participant.user_id \in ParticipantIds(room)
                      THEN [@ EXCEPT ![IndexOfUser(room, participant.user_id)] = participant]
                      ELSE Append(@, participant)]]

add_participant(room, participant) ==
    IF Len(room.participants) >= room.max_participants
    THEN [ok |-> FALSE, room |-> room]
    ELSE [ok |-> TRUE,
          room |-> [room EXCEPT !.participants =
                      IF participant.user_id \in ParticipantIds(room)
                      THEN [@ EXCEPT ![IndexOfUser(room, participant.user_id)] = participant]
                      ELSE Append(@, participant)]]

remove_participant(room, user_id) ==
    IF user_id \in ParticipantIds(room)
    THEN [ok |-> TRUE,
          room |-> [room EXCEPT !.participants =
                      SeqRemoveAt(@, IndexOfUser(room, user_id))]]
    ELSE [ok |-> FALSE, room |-> room]

get_human_participants(room) ==
    {i \in 1..Len(room.participants) : room.participants[i].participant_type = HUMAN}

has_human_participants(room) == get_human_participants(room) # {}

ActiveSpeakers(room) ==
    {room.participants[i].user_id :
        i \in {j \in 1..Len(room.participants) : room.participants[j].voice_activity}}

set_voice_activity(room, user_id, is_active) ==
    IF user_id \notin ParticipantIds(room) THEN room
    ELSE LET i == IndexOfUser(room, user_id)
             r1 == [room EXCEPT !.participants[i].voice_activity = is_active]
         IN IF is_active
            THEN [r1 EXCEPT !.current_speaker = user_id,
                            !.conversation_state =
                                IF r1.participants[i].participant_type = HUMAN
                                THEN "user_speaking" ELSE "ai_speaking"]
            ELSE IF ActiveSpeakers(r1) = {}
                 THEN [r1 EXCEPT !.current_speaker = None,
                                 !.conversation_state = "active"]
                 ELSE r1

is_empty(room) == Len(room.participants) = 0

should_cleanup(room) == IF is_empty(room) THEN room.older_than_grace ELSE FALSE

(***************************************************************************)
(* State                                                                   *)
(***************************************************************************)
VARIABLES
    meeting_rooms,        \* EnhancedSessionManager.meeting_rooms: room_id -> MeetingRoom
    participant_to_room,  \* EnhancedSessionManager.participant_to_room: user_id -> room_id
    ai_auto_join_tasks,   \* EnhancedSessionManager.ai_auto_join_tasks: room_id -> "pending" | "done"
    orphan_tasks,         \* room_id -> number of sleeping ai_auto_join tasks no longer in the dict
    ws_failed,            \* websockets whose send_text raises (the client is gone)
    conns,                \* websocket_endpoint tasks: state and arguments of each connection
    sent,                 \* messages put on the wire by the last step: <<type, room_id>>
    flows,                \* the ConversationFlow objects created so far
    active_conversations, \* AIMeetingOrchestrator.active_conversations: meeting_id -> flow
    scheduled_joins,      \* AIMeetingOrchestrator.scheduled_joins: meeting_id -> task
    join_tasks,           \* join_at_scheduled_time tasks
    monitor_tasks,        \* _monitor_conversation_flow tasks
    is_speaking,          \* AIVoiceParticipant.is_speaking of the meeting's agent
    speak_calls           \* _speak_message calls made so far: where each one is

regVars == <<meeting_rooms, participant_to_room, ai_auto_join_tasks, orphan_tasks,
             ws_failed, conns, sent>>

\* the agent's voice: a speak that runs between two steps of the model leaves
\* is_speaking as it found it
voiceVars == <<is_speaking, speak_calls>>

orchVars == <<flows, active_conversations, scheduled_joins, join_tasks, monitor_tasks,
              voiceVars>>

\* AIVoiceParticipant.__init__
VoiceInit ==
    /\ is_speaking = FALSE
    /\ speak_calls = << >>

\* The manager's fields, passed through the calls of one step.
Mgr == [rooms |-> meeting_rooms, p2r |-> participant_to_room,
        tasks |-> ai_auto_join_tasks, orphans |-> orphan_tasks,
        ws_failed |-> ws_failed, sent |-> {}]

SetMgr(M) ==
    /\ meeting_rooms' = M.rooms
    /\ participant_to_room' = M.p2r
    /\ ai_auto_join_tasks' = M.tasks
    /\ orphan_tasks' = M.orphans
    /\ sent' = M.sent

(***************************************************************************)
(* EnhancedSessionManager                                                  *)
(***************************************************************************)
create_meeting_room(M, room_id, max_participants) ==
    IF room_id \notin DOMAIN M.rooms
    THEN [M EXCEPT !.rooms = Put(@, room_id, MeetingRoom(max_participants))]
    ELSE M

_cleanup_room(M, room_id) ==
    LET M1 == IF room_id \in DOMAIN M.rooms
              THEN [M EXCEPT !.rooms = Del(@, room_id)] ELSE M
    IN IF room_id \in DOMAIN M1.tasks
       THEN [M1 EXCEPT !.tasks = Del(@, room_id)]   \* cancel() ends a sleeping task
       ELSE M1

_schedule_ai_auto_join(M, room_id) ==
    LET overwritten == room_id \in DOMAIN M.tasks /\ M.tasks[room_id] = "pending"
    IN [M EXCEPT !.tasks = Put(@, room_id, "pending"),
                 !.orphans[room_id] = IF overwritten THEN @ + 1 ELSE @]

RECURSIVE _broadcast_to_room(_, _, _, _)
RECURSIVE LeaveEach(_, _)
RECURSIVE leave_meeting_room(_, _)

\* the loop over disconnected_participants at the end of _broadcast_to_room
LeaveEach(M, user_ids) ==
    IF user_ids = << >> THEN M
    ELSE LeaveEach(leave_meeting_room(M, Head(user_ids)).m, Tail(user_ids))

\* _broadcast_to_room without the test of the room: the message for a room that
\* is not registered goes out all the same
_broadcast_to_room_Untested(M, room_id, type, exclude_user) ==
    IF room_id \notin DOMAIN M.rooms THEN [M EXCEPT !.sent = @ \cup {<<type, room_id>>}]
    ELSE LET ps == M.rooms[room_id].participants
             disconnected ==
                 SelectSeq(ps, LAMBDA p : /\ p.user_id # exclude_user
                                          /\ p.websocket \in M.ws_failed)
         IN LeaveEach([M EXCEPT !.sent = @ \cup {<<type, room_id>>}],
                      [i \in 1..Len(disconnected) |-> disconnected[i].user_id])

_broadcast_to_room(M, room_id, type, exclude_user) ==
    IF room_id \notin DOMAIN M.rooms THEN M
    ELSE LET ps == M.rooms[room_id].participants
             disconnected ==
                 SelectSeq(ps, LAMBDA p : /\ p.user_id # exclude_user
                                          /\ p.websocket \in M.ws_failed)
         IN LeaveEach([M EXCEPT !.sent = @ \cup {<<type, room_id>>}],
                      [i \in 1..Len(disconnected) |-> disconnected[i].user_id])

_broadcast_participant_update(M, room_id, event_type) ==
    _broadcast_to_room(M, room_id, event_type, None)

\* leave_meeting_room that neither looks at what remove_participant returns nor
\* deletes the index entry
leave_meeting_room_Unchecked(M, user_id) ==
    IF user_id \notin DOMAIN M.p2r THEN [ret |-> FALSE, m |-> M]
    ELSE LET room_id == M.p2r[user_id]
         IN IF room_id \notin DOMAIN M.rooms THEN [ret |-> FALSE, m |-> M]
            ELSE LET rem == remove_participant(M.rooms[room_id], user_id)
                     M1 == [M EXCEPT !.rooms[room_id] = rem.room]
                     M2 == _broadcast_participant_update(M1, room_id, "participant_left")
                     M3 == IF /\ room_id \in DOMAIN M2.rooms
                              /\ should_cleanup(M2.rooms[room_id])
                           THEN _cleanup_room(M2, room_id) ELSE M2
                 IN [ret |-> TRUE, m |-> M3]

leave_meeting_room(M, user_id) ==
    IF user_id \notin DOMAIN M.p2r THEN [ret |-> FALSE, m |-> M]
    ELSE LET room_id == M.p2r[user_id]
         IN IF room_id \notin DOMAIN M.rooms THEN [ret |-> FALSE, m |-> M]
            ELSE LET rem == remove_participant(M.rooms[room_id], user_id)
                 IN IF ~rem.ok THEN [ret |-> FALSE, m |-> M]
                    ELSE LET M1 == [M EXCEPT !.rooms[room_id] = rem.room,
                                             !.p2r = Del(@, user_id)]
                             M2 == _broadcast_participant_update(M1, room_id, "participant_left")
                             \* `room` is the object fetched before the broadcast; when a
                             \* nested leave already cleaned it up, _cleanup_room finds
                             \* nothing left to delete
                             M3 == IF /\ room_id \in DOMAIN M2.rooms
                                      /\ should_cleanup(M2.rooms[room_id])
                                   THEN _cleanup_room(M2, room_id) ELSE M2
                         IN [ret |-> TRUE, m |-> M3]

\* join_meeting_room with the index written before add_participant is asked
join_meeting_room_IndexFirst(M, room_id, user_id, websocket, participant_type) ==
    LET M0 == IF room_id \notin DOMAIN M.rooms
              THEN create_meeting_room(M, room_id, DefaultMaxParticipants) ELSE M
        participant == Participant(user_id, websocket, participant_type)
        add == add_participant(M0.rooms[room_id], participant)
        Mi == [M0 EXCEPT !.p2r = Put(@, user_id, room_id)]
    IN IF ~add.ok THEN [ret |-> FALSE, m |-> Mi]
       ELSE LET room1 == IF participant_type = AI
                         THEN [add.room EXCEPT !.ai_participant = ParticipantRef(participant)]
                         ELSE add.room
                M1 == [Mi EXCEPT !.rooms[room_id] = room1]
                M2 == _broadcast_participant_update(M1, room_id, "participant_joined")
                M3 == IF /\ participant_type = HUMAN
                         /\ room_id \in DOMAIN M2.rooms
                         /\ Cardinality(get_human_participants(M2.rooms[room_id])) = 1
                         /\ M2.rooms[room_id].ai_participant = NoParticipant
                      THEN _schedule_ai_auto_join(M2, room_id) ELSE M2
            IN [ret |-> TRUE, m |-> M3]

join_meeting_room(M, room_id, user_id, websocket, participant_type) ==
    LET M0 == IF room_id \notin DOMAIN M.rooms
              THEN create_meeting_room(M, room_id, DefaultMaxParticipants) ELSE M
        participant == Participant(user_id, websocket, participant_type)
        add == add_participant(M0.rooms[room_id], participant)
    IN IF ~add.ok THEN [ret |-> FALSE, m |-> M0]
       ELSE LET room1 == IF participant_type = AI
                         THEN [add.room EXCEPT !.ai_participant = ParticipantRef(participant)]
                         ELSE add.room
                M1 == [M0 EXCEPT !.rooms[room_id] = room1,
                                 !.p2r = Put(@, user_id, room_id)]
                M2 == _broadcast_participant_update(M1, room_id, "participant_joined")
                M3 == IF /\ participant_type = HUMAN
                         /\ room_id \in DOMAIN M2.rooms
                         /\ Cardinality(get_human_participants(M2.rooms[room_id])) = 1
                         /\ M2.rooms[room_id].ai_participant = NoParticipant
                      THEN _schedule_ai_auto_join(M2, room_id) ELSE M2
            IN [ret |-> TRUE, m |-> M3]

\* join_meeting_room up to the first send_text of its participant_joined
\* broadcast, where the coroutine is suspended with the loop over
\* room.participants.values() open
join_meeting_room_Begin(M, room_id, user_id, websocket, participant_type) ==
    LET M0 == IF room_id \notin DOMAIN M.rooms
              THEN create_meeting_room(M, room_id, DefaultMaxParticipants) ELSE M
        participant == Participant(user_id, websocket, participant_type)
        add == add_participant(M0.rooms[room_id], participant)
    IN IF ~add.ok THEN [ret |-> FALSE, m |-> M0]
       ELSE LET room1 == IF participant_type = AI
                         THEN [add.room EXCEPT !.ai_participant = ParticipantRef(participant)]
                         ELSE add.room
            IN [ret |-> TRUE,
                m |-> [M0 EXCEPT !.rooms[room_id] = room1,
                                 !.p2r = Put(@, user_id, room_id)]]

\* join_meeting_room from the resumption of that send to its return.  The loop
\* was opened over a dict of iter_size entries: when the dict has another size
\* now, the loop's next step raises RuntimeError, which leaves
\* join_meeting_room; otherwise the sends are made, the participants whose send
\* fails are made to leave, and the first human arms the auto-join.
join_meeting_room_Resume(M, room_id, user_id, participant_type, iter_size) ==
    IF \/ room_id \notin DOMAIN M.rooms
       \/ Len(M.rooms[room_id].participants) # iter_size
    THEN [ret |-> "raised", m |-> M]
    ELSE LET M2 == _broadcast_participant_update(M, room_id, "participant_joined")
             M3 == IF /\ participant_type = HUMAN
                      /\ room_id \in DOMAIN M2.rooms
                      /\ Cardinality(get_human_participants(M2.rooms[room_id])) = 1
                      /\ M2.rooms[room_id].ai_participant = NoParticipant
                   THEN _schedule_ai_auto_join(M2, room_id) ELSE M2
         IN [ret |-> "joined", m |-> M3]

handle_voice_activity(M, user_id, is_active) ==
    IF user_id \notin DOMAIN M.p2r THEN M
    ELSE LET room_id == M.p2r[user_id]
         IN IF room_id \notin DOMAIN M.rooms THEN M
            ELSE _broadcast_to_room(
                     [M EXCEPT !.rooms[room_id] = set_voice_activity(@, user_id, is_active)],
                     room_id, "voice_activity", user_id)

broadcast_to_room(M, room_id, type, sender_user_id) ==
    _broadcast_to_room(M, room_id, type, sender_user_id)

\* the body of the ai_auto_join task once its sleep is over
ai_auto_join(M, room_id) ==
    IF /\ room_id \in DOMAIN M.rooms
       /\ has_human_participants(M.rooms[room_id])
       /\ M.rooms[room_id].ai_participant = NoParticipant
    THEN _broadcast_to_room(M, room_id, "ai_auto_join_scheduled", None)
    ELSE M

(***************************************************************************)
(* websocket_endpoint: one task per connection.  A step runs the handler   *)
(* from one receive to the next.  When the handler returns, its locals are *)
(* gone and the websocket is closed, so a later send_text on it raises.    *)
(***************************************************************************)
IdleConn == [st |-> "idle", user_id |-> None, room_id |-> None, p_type |-> None]

\* the handler returned after `except`
ClosedConn == [st |-> "closed", user_id |-> None, room_id |-> None, p_type |-> None]

\* (user_id, participant_type) query parameters a client connects with
ConnIdentities == (Humans \X {HUMAN}) \cup {<<AiUser, AI>>}

\* connections are numbered in the order they are accepted
NextToAccept(c) == \A d \in Conns : d < c => conns[d].st # "idle"

WsConnect(c, room_id, user_id, p_type) ==
    /\ conns[c].st = "idle"
    /\ NextToAccept(c)
    /\ LET j == join_meeting_room(Mgr, room_id, user_id, c, p_type)
       IN IF j.ret
          THEN \* room_joined goes to the new connection itself
               /\ SetMgr([j.m EXCEPT !.sent = @ \cup {<<"room_joined", room_id>>}])
               /\ conns' = [conns EXCEPT ![c] =
                              [st |-> "open", user_id |-> user_id,
                               room_id |-> room_id, p_type |-> p_type]]
               /\ UNCHANGED ws_failed
          ELSE /\ SetMgr(j.m)
               \* websocket.close(code=1000, reason="Room is full"); return
               /\ conns' = [conns EXCEPT ![c] =
                              [st |-> "rejected", user_id |-> user_id,
                               room_id |-> room_id, p_type |-> p_type]]
               /\ ws_failed' = ws_failed \cup {c}
    /\ UNCHANGED orchVars

\* {"type": "voice_activity", "is_active": ...}
WsVoiceActivity(c, is_active) ==
    /\ conns[c].st = "open"
    /\ c \notin ws_failed
    /\ SetMgr(handle_voice_activity(Mgr, conns[c].user_id, is_active))
    /\ UNCHANGED <<ws_failed, conns, orchVars>>

\* offer / answer / ice without to_user, and every other well-formed type
WsSignal(c) ==
    /\ conns[c].st = "open"
    /\ c \notin ws_failed
    /\ SetMgr(broadcast_to_room(Mgr, conns[c].room_id, "signal", conns[c].user_id))
    /\ UNCHANGED <<ws_failed, conns, orchVars>>

\* what `except Exception` and `except WebSocketDisconnect` do: leave, then return
HandlerExit(c) ==
    /\ SetMgr(leave_meeting_room([Mgr EXCEPT !.ws_failed = @ \cup {c}], conns[c].user_id).m)
    /\ conns' = [conns EXCEPT ![c] = ClosedConn]
    /\ ws_failed' = ws_failed \cup {c}
    /\ UNCHANGED orchVars

\* a frame json.loads cannot parse raises inside the receive loop
WsMalformed(c) ==
    /\ conns[c].st = "open"
    /\ c \notin ws_failed
    /\ HandlerExit(c)

\* the client goes away: from now on send_text on this websocket raises
ClientGone(c) ==
    /\ conns[c].st = "open"
    /\ c \notin ws_failed
    /\ ws_failed' = ws_failed \cup {c}
    /\ sent' = {}
    /\ UNCHANGED <<meeting_rooms, participant_to_room, ai_auto_join_tasks, orphan_tasks, conns,
                   orchVars>>

\* receive_text raises WebSocketDisconnect
WsDisconnect(c) ==
    /\ conns[c].st = "open"
    /\ c \in ws_failed
    /\ HandlerExit(c)

\* websocket_endpoint from accept into join_meeting_room, as far as the first
\* send of the participant_joined broadcast
WsJoinBegin(c, room_id, user_id, p_type) ==
    /\ conns[c].st = "idle"
    /\ NextToAccept(c)
    /\ LET j == join_meeting_room_Begin(Mgr, room_id, user_id, c, p_type)
       IN /\ SetMgr(j.m)
          /\ IF j.ret
             THEN /\ conns' = [conns EXCEPT ![c] =
                                 [st |-> "joining", user_id |-> user_id,
                                  room_id |-> room_id, p_type |-> p_type,
                                  iter_size |-> Len(j.m.rooms[room_id].participants)]]
                  /\ UNCHANGED ws_failed
             ELSE /\ conns' = [conns EXCEPT ![c] =
                                 [st |-> "rejected", user_id |-> user_id,
                                  room_id |-> room_id, p_type |-> p_type]]
                  /\ ws_failed' = ws_failed \cup {c}
    /\ UNCHANGED orchVars

\* the suspended send returns: join_meeting_room runs to its end and the
\* handler sends room_joined, or the RuntimeError reaches `except Exception`
WsJoinResume(c) ==
    /\ conns[c].st = "joining"
    /\ LET r == join_meeting_room_Resume(Mgr, conns[c].room_id, conns[c].user_id,
                                         conns[c].p_type, conns[c].iter_size)
       IN IF r.ret = "raised"
          THEN HandlerExit(c)
          ELSE /\ SetMgr([r.m EXCEPT !.sent = @ \cup {<<"room_joined", conns[c].room_id>>}])
               /\ conns' = [conns EXCEPT ![c] =
                              [st |-> "open", user_id |-> conns[c].user_id,
                               room_id |-> conns[c].room_id, p_type |-> conns[c].p_type]]
               /\ UNCHANGED <<ws_failed, orchVars>>

(***************************************************************************)
(* Other callers of the manager                                            *)
(***************************************************************************)
\* create_meeting_room is the manager's method that takes the capacity; a room
\* that join_meeting_room creates itself has the default one
CreateMeetingRoom(room_id, max_participants) ==
    /\ room_id \notin DOMAIN meeting_rooms
    /\ SetMgr(create_meeting_room(Mgr, room_id, max_participants))
    /\ UNCHANGED <<ws_failed, conns, orchVars>>

\* AIVoiceParticipant.join_meeting: the join, then the spoken greeting
\* (_speak_message broadcasts it as ai_voice_message, or as text when there is
\* no audio)
AiJoinMeeting(room_id) ==
    /\ LET j == join_meeting_room(Mgr, room_id, AiUser, MockWs, AI)
       IN IF j.ret
          THEN SetMgr(broadcast_to_room(j.m, room_id, "ai_voice_message", None))
          ELSE SetMgr(j.m)
    /\ UNCHANGED <<ws_failed, conns, orchVars>>

\* a sleeping ai_auto_join task wakes up: the one in the dict, or an overwritten one
AiAutoJoinRun(room_id, registered) ==
    /\ IF registered
       THEN /\ room_id \in DOMAIN ai_auto_join_tasks
            /\ ai_auto_join_tasks[room_id] = "pending"
            /\ SetMgr(ai_auto_join([Mgr EXCEPT !.tasks[room_id] = "done"], room_id))
       ELSE /\ orphan_tasks[room_id] > 0
            /\ SetMgr(ai_auto_join([Mgr EXCEPT !.orphans[room_id] = @ - 1], room_id))
    /\ UNCHANGED <<ws_failed, conns, orchVars>>

\* five minutes pass since the room was created
GraceElapses(room_id) ==
    /\ room_id \in DOMAIN meeting_rooms
    /\ ~meeting_rooms[room_id].older_than_grace
    /\ meeting_rooms' = [meeting_rooms EXCEPT ![room_id].older_than_grace = TRUE]
    /\ sent' = {}
    /\ UNCHANGED <<participant_to_room, ai_auto_join_tasks, orphan_tasks, ws_failed, conns,
                   orchVars>>

(***************************************************************************)
(* ConversationFlow                                                        *)
(***************************************************************************)
max_questions == 7

\* longest planned question list initialize() returns
MaxPlanned == 3
\* process_user_response calls made on one flow, one at a time
MaxResponses == 8
\* process_user_response calls made on one flow when calls may overlap
MaxOverlapResponses == 3
\* process_user_response calls of one flow suspended in the pacing delay at once
MaxConcurrent == 2
\* schedule_ai_join calls
MaxJoins == 1

Meetings == {"m1"}

\* scheduled_meetings.meeting_room_id of the meeting
RoomOf(meeting_id) == "r1"

Message(speaker, kind, q) == [speaker |-> speaker, kind |-> kind, q |-> q]

NoMessage == Message(None, None, -1)

\* ConversationFlow.__init__ followed by initialize(): nq planned questions
ConversationFlow(nq) ==
    [state |-> "waiting",
     current_question_index |-> 0,
     questions |-> nq,
     conversation_history |-> << >>,
     \* (datetime.now() - last_activity).total_seconds() > silence_timeout
     silent |-> FALSE,
     \* process_user_response calls inside asyncio.sleep(ai_response_delay)
     suspended |-> 0,
     \* _analyze_and_complete tasks created
     analyses |-> 0,
     \* what the last start_conversation / process_user_response returned
     last_reply |-> NoMessage]

\* _save_conversation_message keeping a window of the last messages only
_save_conversation_message_Window(f, message) ==
    [f EXCEPT !.conversation_history =
        IF Len(@) >= 2 THEN << @[Len(@)], message >> ELSE Append(@, message)]

_save_conversation_message(f, message) ==
    [f EXCEPT !.conversation_history = Append(@, message)]

start_conversation(f) ==
    IF f.questions = 0
    THEN [f EXCEPT !.last_reply = Message("ai", "default_opening", -1)]
    ELSE LET opening_message == Message("ai", "opening", 0)
         IN [_save_conversation_message([f EXCEPT !.state = "ai_speaking"], opening_message)
                EXCEPT !.last_reply = opening_message]

\* _generate_next_question reading the list before it advances the index
_generate_next_question_NoAdvance(f) ==
    LET idx == f.current_question_index
        next_question == IF idx < f.questions
                         THEN Message("ai", "question", idx)
                         ELSE Message("ai", "follow_up", idx)
    IN [_save_conversation_message(
            [f EXCEPT !.current_question_index = idx + 1, !.state = "ai_speaking"],
            next_question)
          EXCEPT !.last_reply = next_question]

_generate_next_question(f) ==
    LET idx == f.current_question_index + 1
        next_question == IF idx < f.questions
                         THEN Message("ai", "question", idx)
                         ELSE Message("ai", "follow_up", idx)
    IN [_save_conversation_message(
            [f EXCEPT !.current_question_index = idx, !.state = "ai_speaking"],
            next_question)
          EXCEPT !.last_reply = next_question]

_complete_conversation(f) ==
    LET completion_message == Message("ai", "closing", -1)
    IN [_save_conversation_message([f EXCEPT !.state = "completed"], completion_message)
          EXCEPT !.analyses = @ + 1, !.last_reply = completion_message]

\* process_user_response up to asyncio.sleep(self.ai_response_delay)
process_user_response_Begin(f) ==
    [_save_conversation_message(f, Message("human", "answer", -1))
        EXCEPT !.silent = FALSE, !.suspended = @ + 1]

\* _complete_conversation chosen one message late
process_user_response_Resume_Late(f) ==
    LET g == [f EXCEPT !.suspended = @ - 1]
    IN IF Len(g.conversation_history) > max_questions * 2
       THEN _complete_conversation(g)
       ELSE _generate_next_question(g)

\* process_user_response after the sleep
process_user_response_Resume(f) ==
    LET g == [f EXCEPT !.suspended = @ - 1]
    IN IF Len(g.conversation_history) >= max_questions * 2
       THEN _complete_conversation(g)
       ELSE _generate_next_question(g)

\* should_prompt_user without the test of the state
should_prompt_user_AnyState(f) == f.silent

should_prompt_user(f) ==
    IF f.state = "waiting_for_response" THEN f.silent ELSE FALSE

handle_silence_timeout(f) ==
    IF should_prompt_user(f)
    THEN [flow |-> _save_conversation_message(f, Message("ai", "prompt", -1)),
          ret |-> Message("ai", "prompt", -1)]
    ELSE [flow |-> f, ret |-> NoMessage]

(***************************************************************************)
(* AIMeetingOrchestrator                                                   *)
(***************************************************************************)
\* a step of the orchestrator that does not touch the session manager
RegIdle ==
    /\ sent' = {}
    /\ UNCHANGED <<meeting_rooms, participant_to_room, ai_auto_join_tasks, orphan_tasks,
                   ws_failed, conns, voiceVars>>

JoinTask(meeting_id) ==
    [pc |-> "sleeping", meeting_id |-> meeting_id,
     \* what _wait_for_participants came back with: "pending", "found" or "timeout"
     waited |-> "pending",
     \* the local `conversation`: 0 until the flow is created
     conversation |-> 0,
     \* whether this task's join_meeting() added the agent to the room
     joined_room |-> FALSE]

schedule_ai_join(meeting_id) ==
    /\ join_tasks' = Append(join_tasks, JoinTask(meeting_id))
    /\ scheduled_joins' = Put(scheduled_joins, meeting_id, Len(join_tasks) + 1)

HumansPresent(room_id) ==
    /\ room_id \in DOMAIN meeting_rooms
    /\ has_human_participants(meeting_rooms[room_id])

\* join_scheduled_meeting from the return of _wait_for_participants to the
\* greeting of join_meeting(): the result of the wait is not looked at
JoinEnter(t, waited, nq) ==
    LET meeting_id == join_tasks[t].meeting_id
        room_id == RoomOf(meeting_id)
        conversation == Len(flows) + 1
        M1 == broadcast_to_room(Mgr, room_id, "ai_joined", None)
        j == join_meeting_room(M1, room_id, AiUser, MockWs, AI)
        M2 == IF j.ret THEN broadcast_to_room(j.m, room_id, "ai_voice_message", None)
              ELSE j.m
    IN /\ flows' = Append(flows, ConversationFlow(nq))
       /\ active_conversations' = Put(active_conversations, meeting_id, conversation)
       /\ SetMgr(M2)
       /\ join_tasks' = [join_tasks EXCEPT ![t] =
                           [@ EXCEPT !.pc = "greeting", !.waited = waited,
                                     !.conversation = conversation,
                                     !.joined_room = j.ret]]
       /\ UNCHANGED <<voiceVars, ws_failed, conns, scheduled_joins, monitor_tasks>>

ScheduleAiJoin(meeting_id) ==
    /\ Len(join_tasks) < MaxJoins
    /\ schedule_ai_join(meeting_id)
    /\ RegIdle
    /\ UNCHANGED <<flows, active_conversations, monitor_tasks>>

\* the scheduled time is reached: the meeting and the lead are looked up, then
\* _wait_for_participants polls for the first time
JoinAtScheduledTime(t, found, nq) ==
    /\ join_tasks[t].pc = "sleeping"
    /\ IF ~found
       THEN /\ join_tasks' = [join_tasks EXCEPT ![t].pc = "done"]
            /\ RegIdle
            /\ UNCHANGED <<flows, active_conversations, scheduled_joins, monitor_tasks>>
       ELSE IF HumansPresent(RoomOf(join_tasks[t].meeting_id))
            THEN JoinEnter(t, "found", nq)
            ELSE /\ join_tasks' = [join_tasks EXCEPT ![t].pc = "waiting"]
                 /\ RegIdle
                 /\ UNCHANGED <<flows, active_conversations, scheduled_joins, monitor_tasks>>

\* a later poll of _wait_for_participants finds a human
JoinPoll(t, nq) ==
    /\ join_tasks[t].pc = "waiting"
    /\ HumansPresent(RoomOf(join_tasks[t].meeting_id))
    /\ JoinEnter(t, "found", nq)

\* timeout_minutes are over: _wait_for_participants returns False
JoinWaitTimeout(t, nq) ==
    /\ join_tasks[t].pc = "waiting"
    /\ JoinEnter(t, "timeout", nq)

\* start_conversation and speak_message(opening_message)
JoinStart(t) ==
    /\ join_tasks[t].pc = "greeting"
    /\ flows' = [flows EXCEPT ![join_tasks[t].conversation] = start_conversation(@)]
    /\ SetMgr(broadcast_to_room(Mgr, RoomOf(join_tasks[t].meeting_id), "ai_voice_message", None))
    /\ join_tasks' = [join_tasks EXCEPT ![t].pc = "opening"]
    /\ UNCHANGED <<voiceVars, ws_failed, conns, active_conversations, scheduled_joins, monitor_tasks>>

\* asyncio.create_task(self._monitor_conversation_flow(...)); return True
JoinFinish(t) ==
    /\ join_tasks[t].pc = "opening"
    /\ monitor_tasks' = Append(monitor_tasks,
                               [pc |-> "start", meeting_id |-> join_tasks[t].meeting_id,
                                conversation |-> 0])
    /\ join_tasks' = [join_tasks EXCEPT ![t].pc = "done"]
    /\ RegIdle
    /\ UNCHANGED <<flows, active_conversations, scheduled_joins>>

\* `while conversation.state != COMPLETED` and what follows the loop
MonitorLoop(k, conversation, fl) ==
    IF fl[conversation].state # "completed"
    THEN /\ monitor_tasks' = [monitor_tasks EXCEPT ![k] =
                                [@ EXCEPT !.pc = "sleep", !.conversation = conversation]]
         /\ UNCHANGED active_conversations
    ELSE /\ monitor_tasks' = [monitor_tasks EXCEPT ![k] =
                                [@ EXCEPT !.pc = "done", !.conversation = conversation]]
         /\ active_conversations' =
                IF monitor_tasks[k].meeting_id \in DOMAIN active_conversations
                THEN Del(active_conversations, monitor_tasks[k].meeting_id)
                ELSE active_conversations

MonitorStart(k) ==
    /\ monitor_tasks[k].pc = "start"
    /\ IF monitor_tasks[k].meeting_id \in DOMAIN active_conversations
       THEN MonitorLoop(k, active_conversations[monitor_tasks[k].meeting_id], flows)
       ELSE /\ monitor_tasks' = [monitor_tasks EXCEPT ![k].pc = "done"]
            /\ UNCHANGED active_conversations
    /\ RegIdle
    /\ UNCHANGED <<flows, scheduled_joins, join_tasks>>

\* the two-second sleep is over
MonitorWake(k) ==
    /\ monitor_tasks[k].pc = "sleep"
    /\ LET conversation == monitor_tasks[k].conversation
           h == handle_silence_timeout(flows[conversation])
           fl == [flows EXCEPT ![conversation] = h.flow]
       IN /\ flows' = fl
          /\ IF h.ret # NoMessage
             THEN SetMgr(broadcast_to_room(Mgr, RoomOf(monitor_tasks[k].meeting_id),
                                           "ai_message", None))
             ELSE SetMgr(Mgr)
          /\ MonitorLoop(k, conversation, fl)
    /\ UNCHANGED <<voiceVars, ws_failed, conns, scheduled_joins, join_tasks>>

HumanMessages(f) ==
    Cardinality({i \in 1..Len(f.conversation_history) :
                    f.conversation_history[i].speaker = "human"})

\* process_user_message, called for a human message of the meeting; at most
\* `limit` messages are sent to one flow
ProcessBegin(meeting_id, limit) ==
    /\ meeting_id \in DOMAIN active_conversations
    /\ LET conversation == active_conversations[meeting_id]
           f == flows[conversation]
       IN /\ f.suspended < MaxConcurrent
          /\ HumanMessages(f) < limit
          /\ flows' = [flows EXCEPT ![conversation] = process_user_response_Begin(@)]
    /\ RegIdle
    /\ UNCHANGED <<active_conversations, scheduled_joins, join_tasks, monitor_tasks>>

\* the pacing delay of one call is over: the reply is chosen and spoken
ProcessResume(meeting_id, conversation) ==
    /\ conversation \in 1..Len(flows)
    /\ flows[conversation].suspended > 0
    /\ flows' = [flows EXCEPT ![conversation] = process_user_response_Resume(@)]
    /\ SetMgr(broadcast_to_room(Mgr, RoomOf(meeting_id), "ai_voice_message", None))
    /\ UNCHANGED <<voiceVars, ws_failed, conns, active_conversations, scheduled_joins, join_tasks,
                   monitor_tasks>>

EndMeetingGracefully(meeting_id) ==
    /\ meeting_id \in DOMAIN active_conversations
    /\ LET conversation == active_conversations[meeting_id]
       IN flows' = [flows EXCEPT ![conversation] =
                      IF @.state # "completed" THEN _complete_conversation(@) ELSE @]
    /\ active_conversations' = Del(active_conversations, meeting_id)
    /\ RegIdle
    /\ UNCHANGED <<scheduled_joins, join_tasks, monitor_tasks>>

\* silence_timeout seconds pass without last_activity being set
SilenceElapses(conversation) ==
    /\ conversation \in 1..Len(flows)
    /\ ~flows[conversation].silent
    /\ flows[conversation].state # "completed"
    /\ flows' = [flows EXCEPT ![conversation].silent = TRUE]
    /\ RegIdle
    /\ UNCHANGED <<active_conversations, scheduled_joins, join_tasks, monitor_tasks>>

(***************************************************************************)
(* Specifications                                                          *)
(***************************************************************************)
vars == <<regVars, orchVars>>

Init ==
    /\ meeting_rooms = EmptyDict
    /\ participant_to_room = EmptyDict
    /\ ai_auto_join_tasks = EmptyDict
    /\ orphan_tasks = [r \in Rooms |-> 0]
    /\ ws_failed = {}
    /\ conns = [c \in Conns |-> IdleConn]
    /\ sent = {}
    /\ VoiceInit
    /\ flows = << >>
    /\ active_conversations = EmptyDict
    /\ scheduled_joins = EmptyDict
    /\ join_tasks = << >>
    /\ monitor_tasks = << >>

\* membership: joins and leaves in the rooms RS
MembershipNext(RS) ==
    \/ \E c \in Conns, r \in RS, id \in ConnIdentities : WsConnect(c, r, id[1], id[2])
    \/ \E c \in Conns : WsMalformed(c)
    \/ \E c \in Conns : ClientGone(c)
    \/ \E c \in Conns : WsDisconnect(c)
    \/ \E r \in RS, m \in 1..MaxCap : CreateMeetingRoom(r, m)
    \/ \E r \in RS : AiJoinMeeting(r)
    \/ \E r \in RS, b \in BOOLEAN : AiAutoJoinRun(r, b)
    \/ \E r \in RS : GraceElapses(r)

\* frames of a joined participant
FrameNext ==
    \/ \E c \in Conns, b \in BOOLEAN : WsVoiceActivity(c, b)
    \/ \E c \in Conns : WsSignal(c)

\* the session manager alone: one room, every operation on it
Next ==
    \/ MembershipNext({"r1"})
    \/ FrameNext

Spec == Init /\ [][Next]_vars

\* the session manager alone: every room, joins and leaves
RoomsNext == MembershipNext(Rooms)

SpecRooms == Init /\ [][RoomsNext]_vars

\* the human attendee coming to and going from the meeting's room
HumansNext ==
    \/ \E u \in Humans : WsConnect(1, "r1", u, HUMAN)
    \/ ClientGone(1)
    \/ WsDisconnect(1)

JoinNext ==
    \/ \E m \in Meetings : ScheduleAiJoin(m)
    \/ \E t \in 1..Len(join_tasks), found \in BOOLEAN, nq \in 1..MaxPlanned :
          JoinAtScheduledTime(t, found, nq)
    \/ \E t \in 1..Len(join_tasks), nq \in 1..MaxPlanned : JoinPoll(t, nq)
    \/ \E t \in 1..Len(join_tasks), nq \in 1..MaxPlanned : JoinWaitTimeout(t, nq)
    \/ \E t \in 1..Len(join_tasks) : JoinStart(t)
    \/ \E t \in 1..Len(join_tasks) : JoinFinish(t)
    \/ \E k \in 1..Len(monitor_tasks) : MonitorStart(k)
    \/ \E k \in 1..Len(monitor_tasks) : MonitorWake(k)

\* the orchestrator with its callers: messages and the end of the meeting arrive
\* at any time
OrchNext ==
    \/ HumansNext
    \/ JoinNext
    \/ \E m \in Meetings : ProcessBegin(m, MaxOverlapResponses)
    \/ \E m \in Meetings, o \in 1..Len(flows) : ProcessResume(m, o)
    \/ \E m \in Meetings : EndMeetingGracefully(m)
    \/ \E o \in 1..Len(flows) : SilenceElapses(o)

SpecOrch == Init /\ [][OrchNext]_vars

\* one human message at a time, each sent after the conversation was started
ProcessBeginSequential(meeting_id) ==
    /\ meeting_id \in DOMAIN active_conversations
    /\ flows[active_conversations[meeting_id]].state # "waiting"
    /\ flows[active_conversations[meeting_id]].suspended = 0
    /\ ProcessBegin(meeting_id, MaxResponses)

SeqNext ==
    \/ HumansNext
    \/ JoinNext
    \/ \E m \in Meetings : ProcessBeginSequential(m)
    \/ \E m \in Meetings, o \in 1..Len(flows) : ProcessResume(m, o)
    \/ \E o \in 1..Len(flows) : SilenceElapses(o)

SpecSeq == Init /\ [][SeqNext]_vars

(***************************************************************************)
(* Properties of the room registry                                         *)
(***************************************************************************)
RoomIds == DOMAIN meeting_rooms

RoomFull(r) ==
    /\ r \in RoomIds
    /\ Len(meeting_rooms[r].participants) >= meeting_rooms[r].max_participants

\* C1: in every reachable state each room's current_speaker is None or the id of
\* a participant currently in that room.
C1_CurrentSpeakerIsParticipant ==
    \A r \in RoomIds :
        \/ meeting_rooms[r].current_speaker = None
        \/ meeting_rooms[r].current_speaker \in ParticipantIds(meeting_rooms[r])

\* C2: whenever exactly one participant of a room has voice_activity = true,
\* current_speaker is that participant.
C2_SoleActiveIsSpeaker ==
    \A r \in RoomIds :
        Cardinality(ActiveSpeakers(meeting_rooms[r])) = 1
            => meeting_rooms[r].current_speaker \in ActiveSpeakers(meeting_rooms[r])

\* C3: whenever no participant of a room has voice_activity = true,
\* current_speaker is None and the room is in neither speaking state.
C3_IdleWhenNobodyActive ==
    \A r \in RoomIds :
        ActiveSpeakers(meeting_rooms[r]) = {}
            => /\ meeting_rooms[r].current_speaker = None
               /\ meeting_rooms[r].conversation_state \notin {"user_speaking", "ai_speaking"}

\* C4: in every reachable state a room holds at most max_participants participants.
C4_WithinCapacity ==
    \A r \in RoomIds :
        Len(meeting_rooms[r].participants) <= meeting_rooms[r].max_participants

\* a room created with capacity MaxCap is full, the agent being one of its participants
C4_Witness ==
    \E r \in RoomIds :
        /\ meeting_rooms[r].max_participants = MaxCap
        /\ Len(meeting_rooms[r].participants) = MaxCap
        /\ AiUser \in ParticipantIds(meeting_rooms[r])

\* C5: a join on a room that already holds max_participants participants fails
\* and changes nothing: the connection is closed as rejected (the agent's join
\* returns without effect), rooms, index and tasks are as before, and nothing
\* is sent.
C5_FullRoomJoinChangesNothing ==
    [][ /\ \A c \in Conns :
              (conns[c].st = "idle" /\ conns'[c].st # "idle" /\ RoomFull(conns'[c].room_id))
                  => /\ conns'[c].st = "rejected"
                     /\ meeting_rooms' = meeting_rooms
                     /\ participant_to_room' = participant_to_room
                     /\ ai_auto_join_tasks' = ai_auto_join_tasks
                     /\ sent' = {}
        /\ \A r \in Rooms :
              (RoomFull(r) /\ AiJoinMeeting(r))
                  => /\ meeting_rooms' = meeting_rooms
                     /\ participant_to_room' = participant_to_room
                     /\ ai_auto_join_tasks' = ai_auto_join_tasks
                     /\ sent' = {}
      ]_vars

\* a connection was rejected by a room that is full
C5_Witness ==
    \E c \in Conns :
        /\ conns[c].st = "rejected"
        /\ RoomFull(conns[c].room_id)
        /\ conns[c].user_id \notin DOMAIN participant_to_room

\* C6: u is a participant of room r if and only if participant_to_room[u] = r,
\* so no id is registered in two rooms.
C6_IndexAgreesWithRooms ==
    \A r \in Rooms, u \in UserIds :
        (r \in RoomIds /\ u \in ParticipantIds(meeting_rooms[r]))
            <=> (u \in DOMAIN participant_to_room /\ participant_to_room[u] = r)

\* C10: a malformed frame of a joined participant is dropped: the sender gets
\* an error message, its connection stays open, it remains a participant and no
\* other room state changes.
C10_MalformedFrameIsDropped ==
    [][ \A c \in Conns :
            WsMalformed(c)
                => /\ conns'[c].st = "open"
                   /\ <<"error", conns[c].room_id>> \in sent'
                   /\ meeting_rooms' = meeting_rooms
                   /\ participant_to_room' = participant_to_room
      ]_vars

(***************************************************************************)
(* Properties of the conversation                                          *)
(***************************************************************************)
Started(f) == f.state # "waiting"

\* positions of the questions put to the attendee in a flow's history
QuestionsEmitted(f) ==
    {i \in 1..Len(f.conversation_history) :
        f.conversation_history[i].kind \in {"question", "follow_up"}}

\* start_conversation has put the opening question of the flow
Opened(f) ==
    \E i \in 1..Len(f.conversation_history) : f.conversation_history[i].kind = "opening"

\* C7: once the state of a flow whose conversation was started is completed, it
\* stays completed and no further question is emitted for it, whatever
\* process_user_response calls, end_meeting_gracefully and the monitor do
\* afterwards.
C7_CompletedIsTerminal ==
    [][ \A o \in 1..Len(flows) :
            (Opened(flows[o]) /\ flows[o].state = "completed")
                => /\ flows'[o].state = "completed"
                   /\ QuestionsEmitted(flows'[o]) = QuestionsEmitted(flows[o])
      ]_vars

\* C8: for a started flow driven by one process_user_response call at a time,
\* the state is not completed while fewer than max_questions responses have
\* been answered, and the answer to response number max_questions is the
\* closing message with the state completed.
C8_SeventhResponseCompletes ==
    \A o \in 1..Len(flows) :
        LET f == flows[o]
            answered == HumanMessages(f) - f.suspended
        IN Started(f) =>
              /\ answered < max_questions => f.state # "completed"
              /\ (answered < max_questions /\ answered > 0 /\ f.suspended = 0)
                    => f.last_reply.kind \in {"question", "follow_up"}
              /\ (answered = max_questions /\ f.suspended = 0)
                    => /\ f.state = "completed"
                       /\ f.last_reply.kind = "closing"
                       /\ Len(f.conversation_history) = max_questions * 2 + 1

\* response number max_questions was answered
C8_Witness ==
    \E o \in 1..Len(flows) :
        /\ Started(flows[o])
        /\ HumanMessages(flows[o]) = max_questions
        /\ flows[o].suspended = 0
        /\ flows[o].last_reply.kind = "closing"

\* C9: when the bounded wait ended without a human at any poll, the auto-join
\* is abandoned: no flow is registered for the meeting and the agent was not
\* added to the room by this join.
C9_NoHumanAbandonsJoin ==
    \A t \in 1..Len(join_tasks) :
        join_tasks[t].waited = "timeout"
            => /\ join_tasks[t].conversation = 0
               /\ ~join_tasks[t].joined_room
               /\ join_tasks[t].pc = "done"

(***************************************************************************)
(* Life of a room                                                          *)
(***************************************************************************)
\* C11: a room is destroyed only after it has been empty for the grace period:
\* a room that still holds a participant is in the registry after the next
\* step, whatever that step removes from it.
C11_DestroyedOnlyAfterGrace ==
    [][ \A r \in Rooms :
            (r \in RoomIds /\ ~is_empty(meeting_rooms[r])) => r \in DOMAIN meeting_rooms'
      ]_vars

\* what the event loop guarantees: time passes, a sleeping ai_auto_join task
\* wakes up, and the handler of a connection whose client is gone gets its
\* WebSocketDisconnect; clients connect and go as they like
Fairness ==
    /\ \A r \in Rooms : WF_vars(GraceElapses(r))
    /\ \A r \in Rooms, b \in BOOLEAN : WF_vars(AiAutoJoinRun(r, b))
    /\ \A c \in Conns : WF_vars(WsDisconnect(c))

SpecLive == Init /\ [][Next]_vars /\ Fairness

\* C12: a room that becomes empty and stays empty is eventually removed from
\* the registry.
C12_EmptyRoomEventuallyDestroyed ==
    \A r \in Rooms :
        (r \in RoomIds /\ is_empty(meeting_rooms[r]))
            ~> (r \notin RoomIds \/ ~is_empty(meeting_rooms[r]))

(***************************************************************************)
(* Broadcasts                                                              *)
(***************************************************************************)
\* the message types _broadcast_to_room sends to every participant of the room
ToAllTypes ==
    {"participant_joined", "participant_left", "ai_joined", "ai_voice_message",
     "ai_message", "ai_auto_join_scheduled"}

\* the room a step's join was made into, None when the step is no join
JoinedRoom ==
    IF \E r \in Rooms : AiJoinMeeting(r)
    THEN CHOOSE r \in Rooms : AiJoinMeeting(r)
    ELSE IF \E c \in Conns : conns[c].st = "idle" /\ conns'[c].st # "idle"
         THEN LET c == CHOOSE d \in Conns : conns[d].st = "idle" /\ conns'[d].st # "idle"
              IN conns'[c].room_id
         ELSE None

\* C13: when a step has broadcast to everybody in a room, no participant whose
\* websocket fails is left in that room, and a join into one room, with the
\* forced leaves its notification causes, changes the participants of no other
\* room.
C13_FailedSendForcesLeave ==
    [][ /\ \A r \in Rooms :
              ((\E t \in ToAllTypes : <<t, r>> \in sent') /\ r \in DOMAIN meeting_rooms')
                  => \A i \in 1..Len(meeting_rooms'[r].participants) :
                         meeting_rooms'[r].participants[i].websocket \notin ws_failed'
        /\ JoinedRoom # None
              => \A r2 \in RoomIds \ {JoinedRoom} :
                     /\ r2 \in DOMAIN meeting_rooms'
                     /\ meeting_rooms'[r2].participants = meeting_rooms[r2].participants
      ]_vars

(***************************************************************************)
(* Joins that overlap                                                      *)
(***************************************************************************)
\* joins suspended in their notification while other joins and leaves run
JoinStepNext ==
    \/ \E c \in Conns, id \in ConnIdentities : WsJoinBegin(c, "r1", id[1], id[2])
    \/ \E c \in Conns : WsJoinResume(c)
    \/ \E c \in Conns : ClientGone(c)
    \/ \E c \in Conns : WsDisconnect(c)
    \/ \E m \in 1..MaxCap : CreateMeetingRoom("r1", m)
    \/ AiJoinMeeting("r1")
    \/ \E b \in BOOLEAN : AiAutoJoinRun("r1", b)
    \/ FrameNext

SpecJoin == Init /\ [][JoinStepNext]_vars

Joining(r) == \E c \in Conns : conns[c].st = "joining" /\ conns[c].room_id = r

\* C14: once the joins into a room have returned, a room that has a human and
\* no agent participant has had an auto-join task armed.
C14_AutoJoinArmed ==
    \A r \in RoomIds :
        (/\ has_human_participants(meeting_rooms[r])
         /\ meeting_rooms[r].ai_participant = NoParticipant
         /\ ~Joining(r))
            => r \in DOMAIN ai_auto_join_tasks

(***************************************************************************)
(* leave_meeting_room called again                                         *)
(***************************************************************************)
\* the registry after leave_meeting_room(user_id), ready for the next call
AfterLeave(user_id) == [leave_meeting_room(Mgr, user_id).m EXCEPT !.sent = {}]

InSomeRoom(user_id) ==
    \E r \in RoomIds : user_id \in ParticipantIds(meeting_rooms[r])

\* C15: from every state of the registry and for every id, a second
\* leave_meeting_room returns False, changes neither rooms nor index nor tasks
\* and broadcasts nothing, and so does a first one for an id that is in no room.
C15_LeaveIsIdempotent ==
    \A u \in UserIds :
        LET once == AfterLeave(u)
            twice == leave_meeting_room(once, u)
        IN /\ ~twice.ret
           /\ twice.m = once
           /\ ~InSomeRoom(u) => /\ ~leave_meeting_room(Mgr, u).ret
                                /\ leave_meeting_room(Mgr, u).m = Mgr

\* a handler has left, and a participant of a room that holds somebody else
\* can still leave
C15_Witness ==
    /\ \E c \in Conns : conns[c].st = "closed"
    /\ \E u \in DOMAIN participant_to_room :
          /\ leave_meeting_room(Mgr, u).ret
          /\ participant_to_room[u] \in DOMAIN AfterLeave(u).rooms
          /\ AfterLeave(u).rooms[participant_to_room[u]].participants # << >>

(***************************************************************************)
(* A ConversationFlow in any of its states, with its callers               *)
(***************************************************************************)
\* the ConversationState values a flow's methods assign or test
FlowStates == {"waiting", "ai_speaking", "waiting_for_response", "completed"}

\* what a caller sees when the call raised instead of returning
Raised == Message(None, "raised", -1)

\* process_user_response after the sleep, with gemini_service and supabase
\* failing or not, an exception leaving the call where one is raised
process_user_response_Resume_Propagating(f, gemini_fails, db_fails) ==
    LET g == process_user_response_Resume(f)
    IN IF db_fails \/ (gemini_fails /\ g.last_reply.kind = "follow_up")
       THEN [f EXCEPT !.suspended = @ - 1, !.last_reply = Raised]
       ELSE g

\* process_user_response after the sleep, with gemini_service and supabase
\* failing or not: generate_next_question catches what its model raises and
\* returns a stock question, _save_conversation_message has appended the
\* message before the insert whose exception it catches
process_user_response_Resume_Faults(f, gemini_fails, db_fails) ==
    LET g == process_user_response_Resume(f)
        n == Len(g.conversation_history)
    IN IF gemini_fails /\ g.last_reply.kind = "follow_up"
       THEN LET stock == Message("ai", "stock_question", g.last_reply.q)
            IN [g EXCEPT !.conversation_history[n] = stock, !.last_reply = stock]
       ELSE g

\* the pacing delay of one call is over, the collaborators failing or not
ProcessResumeFaults(meeting_id, conversation, gemini_fails, db_fails) ==
    /\ conversation \in 1..Len(flows)
    /\ flows[conversation].suspended > 0
    /\ flows' = [flows EXCEPT ![conversation] =
                    process_user_response_Resume_Faults(@, gemini_fails, db_fails)]
    /\ SetMgr(broadcast_to_room(Mgr, RoomOf(meeting_id), "ai_voice_message", None))
    /\ UNCHANGED <<voiceVars, ws_failed, conns, active_conversations, scheduled_joins, join_tasks,
                   monitor_tasks>>

\* a flow registered for the meeting in state st: before start_conversation
\* when st is waiting, under the monitor's eyes otherwise
InitFlow ==
    /\ meeting_rooms = EmptyDict
    /\ participant_to_room = EmptyDict
    /\ ai_auto_join_tasks = EmptyDict
    /\ orphan_tasks = [r \in Rooms |-> 0]
    /\ ws_failed = {}
    /\ conns = [c \in Conns |-> IdleConn]
    /\ sent = {}
    /\ VoiceInit
    /\ \E st \in FlowStates, nq \in 1..MaxPlanned, silent \in BOOLEAN :
          /\ flows = << [ConversationFlow(nq) EXCEPT !.state = st, !.silent = silent] >>
          /\ join_tasks = IF st = "waiting"
                          THEN << [JoinTask("m1") EXCEPT !.pc = "greeting", !.waited = "found",
                                                         !.conversation = 1] >>
                          ELSE << >>
          /\ monitor_tasks = IF st = "waiting" THEN << >>
                             ELSE << [pc |-> "sleep", meeting_id |-> "m1", conversation |-> 1] >>
    /\ active_conversations = Put(EmptyDict, "m1", 1)
    /\ scheduled_joins = EmptyDict

\* re-prompts the monitor puts into one history
MaxPrompts == 2

Prompts(f) ==
    Cardinality({i \in 1..Len(f.conversation_history) :
                    f.conversation_history[i].kind = "prompt"})

\* the monitor wakes up, as long as the history has room for what it may add
MonitorWakeBounded(k) ==
    /\ monitor_tasks[k].pc = "sleep"
    /\ Prompts(flows[monitor_tasks[k].conversation]) < MaxPrompts
    /\ MonitorWake(k)

FlowNext ==
    \/ \E t \in 1..Len(join_tasks) : JoinStart(t)
    \/ \E t \in 1..Len(join_tasks) : JoinFinish(t)
    \/ \E k \in 1..Len(monitor_tasks) : MonitorStart(k)
    \/ \E k \in 1..Len(monitor_tasks) : MonitorWakeBounded(k)
    \/ \E o \in 1..Len(flows) : SilenceElapses(o)
    \/ \E m \in Meetings : ProcessBegin(m, MaxOverlapResponses)
    \/ \E m \in Meetings, o \in 1..Len(flows), gf \in BOOLEAN, df \in BOOLEAN :
          ProcessResumeFaults(m, o, gf, df)
    \/ \E m \in Meetings : EndMeetingGracefully(m)

SpecFlow == InitFlow /\ [][FlowNext]_vars

IsPrefix(s, t) == Len(s) <= Len(t) /\ SubSeq(t, 1, Len(s)) = s

\* C16: every step leaves each flow's history a prefix of its new history, and
\* a process_user_response call lengthens it by the human message.
C16_HistoryAppendOnly ==
    [][ \A o \in 1..Len(flows) :
            /\ IsPrefix(flows[o].conversation_history, flows'[o].conversation_history)
            /\ flows'[o].suspended > flows[o].suspended
                  => flows'[o].conversation_history =
                        Append(flows[o].conversation_history, Message("human", "answer", -1))
      ]_vars

\* a re-prompt, an answer, a question and the closing are in one history
C16_Witness ==
    \E o \in 1..Len(flows) :
        \A kind \in {"prompt", "answer", "question", "closing"} :
            \E i \in 1..Len(flows[o].conversation_history) :
                flows[o].conversation_history[i].kind = kind

(***************************************************************************)
(* The planned questions                                                   *)
(***************************************************************************)
\* C17: start_conversation returns the opening with questions[0], and the k-th
\* of the process_user_response calls made one at a time returns questions[k],
\* for k below the length of the list and before completion.
C17_QuestionsInOrder ==
    \A o \in 1..Len(flows) :
        LET f == flows[o]
            k == HumanMessages(f)
        IN (Opened(f) /\ f.suspended = 0) =>
              /\ k = 0 => f.last_reply = Message("ai", "opening", 0)
              /\ (k >= 1 /\ k < f.questions /\ k < max_questions)
                    => /\ f.last_reply = Message("ai", "question", k)
                       /\ f.current_question_index = k

\* the second answer was followed by questions[2]
C17_Witness ==
    \E o \in 1..Len(flows) :
        /\ Opened(flows[o])
        /\ flows[o].suspended = 0
        /\ HumanMessages(flows[o]) = 2
        /\ flows[o].last_reply = Message("ai", "question", 2)

C19_PromptOnlyWhenWaitingForResponse ==
    [][ \A o \in 1..Len(flows) :
          LET f == flows[o]
              h == handle_silence_timeout(f)
          IN /\ should_prompt_user(f) <=> (f.state = "waiting_for_response" /\ f.silent)
             /\ f.state \in {"waiting", "ai_speaking", "completed"} =>
                   /\ ~should_prompt_user(f)
                   /\ h.ret = NoMessage
                   /\ h.flow = f
                   /\ (\E k \in 1..Len(monitor_tasks) :
                           /\ monitor_tasks[k].conversation = o
                           /\ MonitorWakeBounded(k)) =>
                         /\ flows'[o].conversation_history = f.conversation_history
                         /\ flows'[o].current_question_index = f.current_question_index
                         /\ sent' = {} ]_vars

\* the monitor (asleep since Init: there is no join task) woke on a flow that was
\* silent beyond the timeout in ai_speaking or completed, and left no prompt
C19_Witness ==
    /\ join_tasks = <<>>
    /\ \E k \in 1..Len(monitor_tasks) :
          LET f == flows[monitor_tasks[k].conversation]
          IN /\ monitor_tasks[k].pc = "done"
             /\ f.silent
             /\ f.state = "completed"
             /\ Len(f.conversation_history) > 0
             /\ Prompts(f) = 0

(***************************************************************************)
(* Failing collaborators                                                   *)
(***************************************************************************)
\* C20: a process_user_response call that comes back has returned an agent
\* message and left the flow in ai_speaking or completed, whether or not
\* question generation and persistence failed during the call: nothing is
\* raised to the caller.
C20_ResponseAlwaysAnswered ==
    [][ \A o \in 1..Len(flows) :
          flows'[o].suspended < flows[o].suspended =>
             /\ flows'[o].last_reply # Raised
             /\ flows'[o].last_reply.speaker = "ai"
             /\ flows'[o].last_reply.kind \in {"question", "follow_up", "stock_question", "closing"}
             /\ flows'[o].state \in {"ai_speaking", "completed"}
             /\ flows'[o].conversation_history[Len(flows'[o].conversation_history)]
                   = flows'[o].last_reply ]_vars

\* question generation failed during a call and the stock question was returned
C20_Witness ==
    \E o \in 1..Len(flows) :
        /\ flows[o].suspended = 0
        /\ flows[o].last_reply.kind = "stock_question"
        /\ flows[o].state = "ai_speaking"

(***************************************************************************)
(* Messages for a room or a conversation that is closed                    *)
(***************************************************************************)
\* process_user_message as far as the pacing delay: None at once when the
\* meeting has no active conversation
ProcessUserMessage(meeting_id, limit) ==
    IF meeting_id \in DOMAIN active_conversations
    THEN ProcessBegin(meeting_id, limit)
    ELSE /\ RegIdle
         /\ UNCHANGED orchVars

\* the agent's conversation for the meeting is running when the room opens
InitLate ==
    /\ meeting_rooms = EmptyDict
    /\ participant_to_room = EmptyDict
    /\ ai_auto_join_tasks = EmptyDict
    /\ orphan_tasks = [r \in Rooms |-> 0]
    /\ ws_failed = {}
    /\ conns = [c \in Conns |-> IdleConn]
    /\ sent = {}
    /\ VoiceInit
    /\ \E nq \in 1..MaxPlanned : flows = << start_conversation(ConversationFlow(nq)) >>
    /\ active_conversations = Put(EmptyDict, "m1", 1)
    /\ scheduled_joins = EmptyDict
    /\ join_tasks = << >>
    /\ monitor_tasks = << >>

\* one attendee's connections to the room, their frames, and the messages and
\* the end of the meeting
LateNext ==
    \/ \E c \in Conns : WsConnect(c, "r1", "u1", HUMAN)
    \/ \E c \in Conns : ClientGone(c)
    \/ \E c \in Conns : WsDisconnect(c)
    \/ GraceElapses("r1")
    \/ FrameNext
    \/ \E m \in Meetings : ProcessUserMessage(m, 1)
    \/ \E m \in Meetings, o \in 1..Len(flows) : ProcessResume(m, o)
    \/ \E m \in Meetings : EndMeetingGracefully(m)

SpecLate == InitLate /\ [][LateNext]_vars

\* nothing was changed and nothing was sent
Dropped ==
    /\ UNCHANGED <<meeting_rooms, participant_to_room, ai_auto_join_tasks, orphan_tasks,
                   ws_failed, conns, orchVars>>
    /\ sent' = {}

\* C21: a broadcast to a room id that is not registered, a voice_activity frame
\* of an id that is in no room and a process_user_message for a meeting without
\* active conversation change nothing and send nothing.
C21_LateMessagesAreDropped ==
    [][ /\ \A r \in Rooms \ RoomIds, u \in UserIds \cup {None} :
              broadcast_to_room(Mgr, r, "signal", u) = Mgr
        /\ \A u \in UserIds, b \in BOOLEAN :
              ~InSomeRoom(u) => handle_voice_activity(Mgr, u, b) = Mgr
        /\ \A c \in Conns, b \in BOOLEAN :
              (WsVoiceActivity(c, b) /\ ~InSomeRoom(conns[c].user_id)) => Dropped
        /\ \A c \in Conns :
              (WsSignal(c) /\ conns[c].room_id \notin RoomIds) => Dropped
        /\ \A m \in Meetings :
              (ProcessUserMessage(m, 1) /\ m \notin DOMAIN active_conversations) => Dropped
      ]_vars

\* a connection is open whose id is in no room any more, its room is destroyed
\* and the conversation of the meeting is closed
C21_Witness ==
    /\ \E c \in Conns :
          /\ conns[c].st = "open"
          /\ c \notin ws_failed
          /\ ~InSomeRoom(conns[c].user_id)
          /\ conns[c].room_id \notin RoomIds
    /\ "m1" \notin DOMAIN active_conversations
    /\ flows[1].state = "completed"

(***************************************************************************)
(* A broadcast suspended between two sends                                 *)
(***************************************************************************)
\* the participants a broadcast awaits a real send_text for: the sender is
\* skipped, and the send_text of the agent's AIWebSocketMock never suspends
RealRecipients(M, room_id, exclude_user) ==
    IF room_id \notin DOMAIN M.rooms THEN {}
    ELSE {i \in 1..Len(M.rooms[room_id].participants) :
             /\ M.rooms[room_id].participants[i].user_id # exclude_user
             /\ M.rooms[room_id].participants[i].websocket # MockWs}

\* _broadcast_to_room from the resumption of a suspended send to its return.
\* The loop was opened over a dict of iter_size entries: when the dict has
\* another size now, the loop's next step raises RuntimeError, which no
\* try of _broadcast_to_room catches.
broadcast_to_room_Resume(M, room_id, type, sender_user_id, iter_size) ==
    IF \/ room_id \notin DOMAIN M.rooms
       \/ Len(M.rooms[room_id].participants) # iter_size
    THEN [ret |-> "raised", m |-> M]
    ELSE [ret |-> "sent", m |-> _broadcast_to_room(M, room_id, type, sender_user_id)]

\* a signalling frame is received and its broadcast is suspended in a send
WsSignalBegin(c) ==
    /\ conns[c].st = "open"
    /\ c \notin ws_failed
    /\ RealRecipients(Mgr, conns[c].room_id, conns[c].user_id) # {}
    /\ conns' = [conns EXCEPT ![c] =
                    [st |-> "sending", user_id |-> conns[c].user_id,
                     room_id |-> conns[c].room_id, p_type |-> conns[c].p_type,
                     iter_size |-> Len(meeting_rooms[conns[c].room_id].participants)]]
    /\ sent' = {}
    /\ UNCHANGED <<meeting_rooms, participant_to_room, ai_auto_join_tasks, orphan_tasks,
                   ws_failed, orchVars>>

\* the suspended send returns: the broadcast runs to its end and the handler
\* goes back to receive_text, or the RuntimeError reaches `except Exception`
WsSignalResume(c) ==
    /\ conns[c].st = "sending"
    /\ LET r == broadcast_to_room_Resume(Mgr, conns[c].room_id, "signal",
                                         conns[c].user_id, conns[c].iter_size)
       IN IF r.ret = "raised"
          THEN HandlerExit(c)
          ELSE /\ SetMgr(r.m)
               /\ conns' = [conns EXCEPT ![c] =
                              [st |-> "open", user_id |-> conns[c].user_id,
                               room_id |-> conns[c].room_id, p_type |-> conns[c].p_type]]
               /\ UNCHANGED <<ws_failed, orchVars>>

\* frames whose broadcast is suspended while others join and leave the room
SendNext ==
    \/ \E c \in Conns, id \in ConnIdentities : WsConnect(c, "r1", id[1], id[2])
    \/ \E c \in Conns : WsSignal(c)
    \/ \E c \in Conns : WsSignalBegin(c)
    \/ \E c \in Conns : WsSignalResume(c)
    \/ \E c \in Conns : ClientGone(c)
    \/ \E c \in Conns : WsDisconnect(c)
    \/ AiJoinMeeting("r1")
    \/ GraceElapses("r1")

SpecSend == Init /\ [][SendNext]_vars

\* C22: a broadcast that was suspended while the participants of its room
\* changed comes back without raising: the sender's handler is open
\* afterwards and the sender, a participant before, is one after.
C22_SuspendedBroadcastCompletes ==
    [][ \A c \in Conns :
          (conns[c].st = "sending" /\ conns'[c].st # "sending")
             => /\ conns'[c].st = "open"
                /\ (/\ conns[c].room_id \in RoomIds
                    /\ conns[c].user_id \in ParticipantIds(meeting_rooms[conns[c].room_id]))
                      => /\ conns[c].room_id \in DOMAIN meeting_rooms'
                         /\ conns[c].user_id \in
                               ParticipantIds(meeting_rooms'[conns[c].room_id])
      ]_vars

(***************************************************************************)
(* The states a conversation passes through                                *)
(***************************************************************************)
\* C23: after the agent has put a question the flow is in
\* waiting_for_response when the next human response is taken up.
C23_WaitsForResponse ==
    [][ \A o \in 1..Len(flows) :
          (Opened(flows[o]) /\ flows'[o].suspended > flows[o].suspended)
             => flows[o].state = "waiting_for_response"
      ]_vars

(***************************************************************************)
(* The monitor of a conversation                                           *)
(***************************************************************************)
\* join_scheduled_meeting has returned: the conversation is started and its
\* monitor is in the first sleep
InitMon ==
    /\ meeting_rooms = EmptyDict
    /\ participant_to_room = EmptyDict
    /\ ai_auto_join_tasks = EmptyDict
    /\ orphan_tasks = [r \in Rooms |-> 0]
    /\ ws_failed = {}
    /\ conns = [c \in Conns |-> IdleConn]
    /\ sent = {}
    /\ VoiceInit
    /\ \E nq \in 1..MaxPlanned : flows = << start_conversation(ConversationFlow(nq)) >>
    /\ active_conversations = Put(EmptyDict, "m1", 1)
    /\ scheduled_joins = EmptyDict
    /\ join_tasks = << >>
    /\ monitor_tasks = << [pc |-> "sleep", meeting_id |-> "m1", conversation |-> 1] >>

MonNext ==
    \/ \E k \in 1..Len(monitor_tasks) : MonitorWake(k)
    \/ \E m \in Meetings : ProcessBegin(m, MaxResponses)
    \/ \E m \in Meetings, o \in 1..Len(flows) : ProcessResume(m, o)
    \/ \E m \in Meetings : EndMeetingGracefully(m)
    \/ \E o \in 1..Len(flows) : SilenceElapses(o)

\* the sleeps end: the monitor wakes up every two seconds and a
\* process_user_response call comes out of its pacing delay
MonFairness ==
    /\ WF_vars(\E k \in 1..Len(monitor_tasks) : MonitorWake(k))
    /\ WF_vars(\E m \in Meetings, o \in 1..Len(flows) : ProcessResume(m, o))

SpecMon == InitMon /\ [][MonNext]_vars /\ MonFairness

\* C24: once the monitored flow is completed, the monitor eventually has left
\* its loop and active_conversations holds no entry for the meeting.
C24_MonitorExits ==
    (flows[1].state = "completed")
        ~> (monitor_tasks[1].pc = "done" /\ "m1" \notin DOMAIN active_conversations)

(***************************************************************************)
(* start_conversation on every planned list                                *)
(***************************************************************************)
\* a flow registered for the meeting before start_conversation, its list of
\* planned questions being empty (as __init__ leaves it) or not
InitStart ==
    /\ meeting_rooms = EmptyDict
    /\ participant_to_room = EmptyDict
    /\ ai_auto_join_tasks = EmptyDict
    /\ orphan_tasks = [r \in Rooms |-> 0]
    /\ ws_failed = {}
    /\ conns = [c \in Conns |-> IdleConn]
    /\ sent = {}
    /\ VoiceInit
    /\ \E nq \in 0..MaxPlanned : flows = << ConversationFlow(nq) >>
    /\ active_conversations = Put(EmptyDict, "m1", 1)
    /\ scheduled_joins = EmptyDict
    /\ join_tasks = << [JoinTask("m1") EXCEPT !.pc = "greeting", !.waited = "found",
                                              !.conversation = 1] >>
    /\ monitor_tasks = << >>

SpecStart == InitStart /\ [][FlowNext]_vars

C26_AnalysisStartedOnce ==
    \A o \in 1..Len(flows) : flows[o].analyses <= 1

(***************************************************************************)
(* Two connections of one participant id                                   *)
(***************************************************************************)
\* the entry of the room's participant dict for user_id holds websocket c
EntryIsOf(c) ==
    /\ conns[c].room_id \in RoomIds
    /\ \E i \in 1..Len(meeting_rooms[conns[c].room_id].participants) :
          /\ meeting_rooms[conns[c].room_id].participants[i].user_id = conns[c].user_id
          /\ meeting_rooms[conns[c].room_id].participants[i].websocket = c

\* C27: when the older connection of a participant id is disconnected, the
\* entry that a newer connection of the same id registered, that connection
\* being open and healthy, is still in the room.
C27_NewerConnectionKeepsEntry ==
    [][ \A c \in Conns, d \in Conns :
          (/\ c # d
           /\ conns[c].st = "open" /\ c \in ws_failed /\ conns'[c].st = "closed"
           /\ conns[d].st = "open" /\ d \notin ws_failed
           /\ conns[d].user_id = conns[c].user_id
           /\ conns[d].room_id = conns[c].room_id
           /\ EntryIsOf(d))
             => /\ conns[d].room_id \in DOMAIN meeting_rooms'
                /\ conns[d].user_id \in ParticipantIds(meeting_rooms'[conns[d].room_id])
      ]_vars

(***************************************************************************)
(* The room's reference to its agent                                       *)
(***************************************************************************)
\* C28: in every reachable state a room's ai_participant, when set, is one of
\* the participants currently in the room.
C28_AiParticipantIsInRoom ==
    \A r \in RoomIds :
        meeting_rooms[r].ai_participant # NoParticipant
            => \E i \in 1..Len(meeting_rooms[r].participants) :
                   ParticipantRef(meeting_rooms[r].participants[i])
                       = meeting_rooms[r].ai_participant

(***************************************************************************)
(* A meeting that is rescheduled                                           *)
(***************************************************************************)
\* update_scheduled_meeting calls with a new scheduled_time for one meeting
MaxReschedules == 1

\* update_scheduled_meeting with a scheduled_time: schedule_ai_join is called
\* again for a meeting that has a join scheduled
RescheduleAiJoin(meeting_id) ==
    /\ meeting_id \in DOMAIN scheduled_joins
    /\ Len(join_tasks) < MaxJoins + MaxReschedules
    /\ schedule_ai_join(meeting_id)
    /\ RegIdle
    /\ UNCHANGED <<flows, active_conversations, monitor_tasks>>

SchedNext ==
    \/ HumansNext
    \/ JoinNext
    \/ \E m \in Meetings : RescheduleAiJoin(m)

SpecSched == Init /\ [][SchedNext]_vars

\* join_at_scheduled_time tasks of the meeting that are waiting for their time
PendingJoins(meeting_id) ==
    {t \in 1..Len(join_tasks) :
        join_tasks[t].meeting_id = meeting_id /\ join_tasks[t].pc = "sleeping"}

\* join tasks of the meeting that created a conversation
ConversationsOpened(meeting_id) ==
    {t \in 1..Len(join_tasks) :
        join_tasks[t].meeting_id = meeting_id /\ join_tasks[t].conversation # 0}

MaxSpeaks == 2

SpeakBroadcast(type) ==
    SetMgr(broadcast_to_room(Mgr, RoomOf("m1"), type, None))

\* _speak_message is called: when the agent is speaking the call sleeps one
\* second, otherwise it sets is_speaking and awaits the speech audio
SpeakRequest ==
    /\ Len(speak_calls) < MaxSpeaks
    /\ IF is_speaking
       THEN /\ speak_calls' = Append(speak_calls, [pc |-> "queued"])
            /\ UNCHANGED is_speaking
       ELSE /\ speak_calls' = Append(speak_calls, [pc |-> "tts"])
            /\ is_speaking' = TRUE
    /\ sent' = {}
    /\ UNCHANGED <<meeting_rooms, participant_to_room, ai_auto_join_tasks, orphan_tasks,
                   ws_failed, conns, flows, active_conversations, scheduled_joins,
                   join_tasks, monitor_tasks>>

\* the one-second sleep of a call that found the agent speaking is over
SpeakQueuedWake(i) ==
    /\ speak_calls[i].pc = "queued"
    /\ is_speaking' = TRUE
    /\ speak_calls' = [speak_calls EXCEPT ![i].pc = "tts"]
    /\ sent' = {}
    /\ UNCHANGED <<meeting_rooms, participant_to_room, ai_auto_join_tasks, orphan_tasks,
                   ws_failed, conns, flows, active_conversations, scheduled_joins,
                   join_tasks, monitor_tasks>>

\* text_to_speech returns: the audio is broadcast and the call sleeps for the
\* speaking duration, or without audio the text is broadcast and the call ends
SpeakTtsDone(i, audio) ==
    /\ speak_calls[i].pc = "tts"
    /\ IF audio
       THEN /\ SpeakBroadcast("ai_voice_message")
            /\ speak_calls' = [speak_calls EXCEPT ![i].pc = "speaking"]
            /\ UNCHANGED is_speaking
       ELSE /\ SpeakBroadcast("ai_message")
            /\ speak_calls' = [speak_calls EXCEPT ![i].pc = "done"]
            /\ is_speaking' = FALSE
    /\ UNCHANGED <<ws_failed, conns, flows, active_conversations, scheduled_joins,
                   join_tasks, monitor_tasks>>

\* the speaking duration is over
SpeakFinish(i) ==
    /\ speak_calls[i].pc = "speaking"
    /\ SpeakBroadcast("ai_speaking_finished")
    /\ speak_calls' = [speak_calls EXCEPT ![i].pc = "done"]
    /\ is_speaking' = FALSE
    /\ UNCHANGED <<ws_failed, conns, flows, active_conversations, scheduled_joins,
                   join_tasks, monitor_tasks>>

\* the attendees of the room and the speak requests of their agent
SpeakNext ==
    \/ \E c \in Conns, u \in Humans : WsConnect(c, "r1", u, HUMAN)
    \/ \E c \in Conns : ClientGone(c)
    \/ \E c \in Conns : WsDisconnect(c)
    \/ SpeakRequest
    \/ \E i \in 1..Len(speak_calls) : SpeakQueuedWake(i)
    \/ \E i \in 1..Len(speak_calls), audio \in BOOLEAN : SpeakTtsDone(i, audio)
    \/ \E i \in 1..Len(speak_calls) : SpeakFinish(i)

SpecSpeak == Init /\ [][SpeakNext]_vars

\* _speak_message calls between setting is_speaking and their end
Speaking == {i \in 1..Len(speak_calls) : speak_calls[i].pc \in {"tts", "speaking"}}

\* C30: is_speaking is true as long as a _speak_message call is between its
\* start and its finish, and at most one call is there at a time: a second
\* request does not go on to broadcast before the first has finished.
C30_OneSpeakAtATime ==
    /\ Speaking # {} => is_speaking
    /\ Cardinality(Speaking) <= 1

====
